---- MODULE Spec2Model ----
(***************************************************************************)
(* The five planning strategies of scg-agent (ReAct, Plan-and-Solve,       *)
(* Reflexion, AdaPlanner, LATS) as one state machine: a graph engine with  *)
(* a single cursor, node functions returning partial updates, and the      *)
(* field-specific merge of the State Record.  Texts are strings and are    *)
(* parsed as the Python code parses them.                                  *)
(***************************************************************************)
EXTENDS Integers, Sequences, FiniteSets, TLC

VARIABLES strategy, node, status, steps, state, iteration_counter, run,
          last_node, last_update, llm_input, tool_outcomes, visits,
          fa_writes, iter0

vars == <<strategy, node, status, steps, state, iteration_counter, run,
          last_node, last_update, llm_input, tool_outcomes, visits,
          fa_writes, iter0>>

(***************************************************************************)
(* Bounds of the model.                                                    *)
(***************************************************************************)
\* recursion limit handed to one invocation of a compiled graph
StepLimit == 9
\* number of invocations of one compiled graph
MaxRuns == 2

(***************************************************************************)
(* Python str operations.                                                  *)
(***************************************************************************)
SetMin(S) == CHOOSE x \in S : \A y \in S : x <= y

Min2(a, b) == IF a <= b THEN a ELSE b

\* s[:n]
Truncate(s, n) == SubSeq(s, 1, Min2(Len(s), n))

\* s.find(sub) + 1 (0 when sub does not occur)
Find(s, sub) ==
  LET I == {i \in 1..(Len(s) - Len(sub) + 1) : SubSeq(s, i, i + Len(sub) - 1) = sub}
  IN IF I = {} THEN 0 ELSE SetMin(I)

\* sub in s
Contains(s, sub) == Find(s, sub) # 0

\* s.startswith(p)
StartsWith(s, p) == Len(p) <= Len(s) /\ SubSeq(s, 1, Len(p)) = p

Whitespace == {" ", "\n", "\t", "\r"}

Digits == {"0", "1", "2", "3", "4", "5", "6", "7", "8", "9"}

\* s.strip()
Strip(s) ==
  LET N == {i \in 1..Len(s) : SubSeq(s, i, i) \notin Whitespace}
  IN IF N = {} THEN ""
     ELSE SubSeq(s, SetMin(N), CHOOSE j \in N : \A k \in N : k <= j)

RECURSIVE Split(_, _)
\* s.split(sep)
Split(s, sep) ==
  LET i == Find(s, sep)
  IN IF i = 0 THEN <<s>>
     ELSE <<SubSeq(s, 1, i - 1)>> \o Split(SubSeq(s, i + Len(sep), Len(s)), sep)

\* seq[-1]
Last(seq) == seq[Len(seq)]

DigitStr == <<"0", "1", "2", "3", "4", "5", "6", "7", "8", "9">>

RECURSIVE IntToStr(_)
\* str(n) for n >= 0
IntToStr(n) ==
  IF n < 10 THEN DigitStr[n + 1]
  ELSE IntToStr(n \div 10) \o DigitStr[(n % 10) + 1]

RECURSIVE Join(_, _)
\* sep.join(seq)
Join(seq, sep) ==
  IF seq = <<>> THEN ""
  ELSE IF Len(seq) = 1 THEN seq[1]
  ELSE seq[1] \o sep \o Join(Tail(seq), sep)

(***************************************************************************)
(* Messages and the State Record.                                          *)
(***************************************************************************)
\* Python None, where a string or nothing is stored
None == "<None>"

SystemMessage(c) == [type |-> "system", content |-> c, tool_calls |-> <<>>, tool_call_id |-> ""]

HumanMessage(c) == [type |-> "human", content |-> c, tool_calls |-> <<>>, tool_call_id |-> ""]

AIMessage(c, tcs) == [type |-> "ai", content |-> c, tool_calls |-> tcs, tool_call_id |-> ""]

ToolMessage(c, id) == [type |-> "tool", content |-> c, tool_calls |-> <<>>, tool_call_id |-> id]

ToolCall(id, name, args) == [id |-> id, name |-> name, args |-> args]

\* state.get(k, d)
Get(st, k, d) == IF k \in DOMAIN st THEN st[k] ELSE d

\* bool(x) of an Optional[str]
Truthy(x) == x # None /\ x # ""

\* Merge with the messages field replaced like any other field
Merge_replace(st, upd) ==
  [k \in (DOMAIN st) \cup (DOMAIN upd) |->
     IF k \notin DOMAIN upd THEN st[k] ELSE upd[k]]

\* the channel reducers: messages are appended, every other field replaced
Merge(st, upd) ==
  [k \in (DOMAIN st) \cup (DOMAIN upd) |->
     IF k \notin DOMAIN upd THEN st[k]
     ELSE IF k = "messages" THEN Get(st, "messages", <<>>) \o upd[k]
     ELSE upd[k]]

\* an update is the empty dict
EmptyUpdate == [k \in {} |-> 0]

\* hasattr(last_message, "tool_calls") and last_message.tool_calls, on messages[-1]
has_tool_calls(st) ==
  LET messages == Get(st, "messages", <<>>)
  IN messages # <<>> /\ Last(messages).type = "ai" /\ Last(messages).tool_calls # <<>>

(***************************************************************************)
(* The graph engine: one cursor, invoke node, merge update, resolve edge.  *)
(***************************************************************************)
END == "__end__"

Strategies == {"react", "plan_solve", "reflexion", "ada_planner", "lats"}

\* the entry point set by each builder
EntryPoint(s) ==
  CASE s = "react" -> "agent"
    [] s = "plan_solve" -> "planner"
    [] s = "reflexion" -> "actor"
    [] s = "ada_planner" -> "planner"
    [] s = "lats" -> "generator"

Nodes == {"agent", "tools", "planner", "executor", "actor", "critique", "finalize",
          "record_step", "replanner", "generator", "execute_candidate",
          "process_result", "evaluator", "selector"}

\* the question of the run
Queries == {"How does caching work?"}

\* the initial State Record handed to invoke(): the query alone, or the query
\* with strategy fields filled in by the caller
Seeds(s) ==
  LET base == {[messages |-> <<HumanMessage(q)>>] : q \in Queries}
      filled ==
        CASE s = "reflexion" ->
               {[final_answer |-> None, draft_answer |-> "", critique |-> "", iteration |-> 1]}
          [] s = "lats" ->
               {[final_answer |-> None, candidates |-> <<>>, scores |-> <<>>, best_path |-> "",
                 is_solved |-> FALSE, current_candidate_index |-> 0]}
          [] OTHER -> {}
  IN base \cup {Merge(b, d) : b \in base, d \in filled}

\* Running without the step guard
Running_unguarded(s, n) ==
  /\ strategy = s
  /\ status = "running"
  /\ node = n

\* the node at the cursor may execute
Running(s, n) ==
  /\ strategy = s
  /\ status = "running"
  /\ node = n
  /\ steps < StepLimit

\* one node execution: merge the update, move the cursor to the resolved target
Advance(n, upd, target, request, outcomes) ==
  /\ state' = Merge(state, upd)
  /\ node' = target
  /\ status' = IF target = END THEN "done" ELSE "running"
  /\ steps' = steps + 1
  /\ last_node' = n
  /\ last_update' = upd
  /\ llm_input' = request
  /\ tool_outcomes' = outcomes
  /\ visits' = [visits EXCEPT ![n] = @ + 1]
  /\ fa_writes' = IF "final_answer" \in DOMAIN upd THEN fa_writes + 1 ELSE fa_writes
  /\ UNCHANGED <<strategy, run, iter0>>

\* a node raised: the exception leaves invoke()
Raise(n, request) ==
  /\ status' = "error"
  /\ steps' = steps + 1
  /\ last_node' = n
  /\ llm_input' = request
  /\ visits' = [visits EXCEPT ![n] = @ + 1]
  /\ UNCHANGED <<strategy, node, state, run, last_update, tool_outcomes, fa_writes, iter0>>

\* the step guard: the limit is used up and the cursor is not at the terminal
Abort ==
  /\ status = "running"
  /\ node # END
  /\ steps >= StepLimit
  /\ status' = "aborted"
  /\ UNCHANGED <<strategy, node, steps, state, iteration_counter, run, last_node,
                 last_update, llm_input, tool_outcomes, visits, fa_writes, iter0>>

\* the compiled graph is invoked again with a fresh State Record
NewRun ==
  /\ status # "running"
  /\ run < MaxRuns
  /\ \E seed \in Seeds(strategy) :
       /\ state' = seed
       /\ iter0' = Get(seed, "iteration", 0)
  /\ run' = run + 1
  /\ node' = EntryPoint(strategy)
  /\ status' = "running"
  /\ steps' = 0
  /\ last_node' = None
  /\ last_update' = EmptyUpdate
  /\ llm_input' = <<>>
  /\ tool_outcomes' = <<>>
  /\ visits' = [n \in Nodes |-> 0]
  /\ fa_writes' = 0
  /\ UNCHANGED <<strategy, iteration_counter>>

(***************************************************************************)
(* The model service and the tools.                                        *)
(***************************************************************************)
\* names of the tools handed to the builders
ToolRegistry == {"search_symbols", "get_source_code"}

\* what one tool invocation does: return a result or raise
ToolOutcomes == {[ok |-> TRUE, text |-> "3 symbols"], [ok |-> FALSE, text |-> "timeout"]}

\* a parsed JSON object with one key
JsonDict1(text) == [kind |-> "dict", size |-> 1, text |-> text]

TC_search == ToolCall("call_a", "search_symbols", JsonDict1("{\"query\": \"cache\"}"))

TC_source == ToolCall("call_b", "get_source_code", JsonDict1("{\"node_id\": \"n1\"}"))

TC_bogus == ToolCall("call_c", "no_such_tool", JsonDict1("{\"x\": \"y\"}"))

\* no tool ran for a request whose name is not in the registry
NotInvoked == [ok |-> FALSE, text |-> None]

\* the possible outcomes of the invocations made for a list of requests
OutcomeChoices(tcs) ==
  {f \in [1..Len(tcs) -> ToolOutcomes \cup {NotInvoked}] :
     \A i \in 1..Len(tcs) : (f[i] = NotInvoked) <=> (tcs[i].name \notin ToolRegistry)}

\* the tool node of langgraph.prebuilt: one tool message per request, in order;
\* an unknown name and a raising tool both give an error message
ToolNode(st, outcomes) ==
  LET tcs == Last(st.messages).tool_calls
  IN [messages |->
        [i \in 1..Len(tcs) |->
           IF tcs[i].name \notin ToolRegistry
             THEN ToolMessage("Error: " \o tcs[i].name \o " is not a valid tool", tcs[i].id)
           ELSE IF outcomes[i].ok THEN ToolMessage(outcomes[i].text, tcs[i].id)
           ELSE ToolMessage("Error: " \o outcomes[i].text, tcs[i].id)]]

\* tools_condition of langgraph.prebuilt
tools_condition(st) == IF has_tool_calls(st) THEN "tools" ELSE END

(***************************************************************************)
(* ReAct.                                                                  *)
(***************************************************************************)
REACT_SYSTEM_PROMPT == "You are a code analysis assistant."

\* responses of the model with tools bound
ToolModelResponses ==
  { AIMessage("Looking at the source.", <<TC_search, TC_bogus>>),
    AIMessage("The cache is an LRU map.", <<>>),
    AIMessage("", <<>>) }

react_request(st) ==
  LET messages == st.messages
  IN IF \A i \in 1..Len(messages) : messages[i].type # "system"
       THEN <<SystemMessage(REACT_SYSTEM_PROMPT)>> \o messages
       ELSE messages

react_agent_node(st, response) ==
  IF response.tool_calls = <<>>
    THEN [messages |-> <<response>>, final_answer |-> response.content]
    ELSE [messages |-> <<response>>]

\* react_should_continue that looks at the content instead of the tool calls
react_should_continue_content(st) ==
  IF Last(st.messages).content = "" THEN "tools" ELSE END

react_should_continue(st) == IF has_tool_calls(st) THEN "tools" ELSE END

ReactAgent ==
  /\ Running("react", "agent")
  /\ \E response \in ToolModelResponses :
       LET upd == react_agent_node(state, response)
       IN Advance("agent", upd, react_should_continue(Merge(state, upd)),
                  react_request(state), <<>>)
  /\ UNCHANGED iteration_counter

ReactTools ==
  /\ Running("react", "tools")
  /\ \E outcomes \in OutcomeChoices(Last(state.messages).tool_calls) :
       Advance("tools", ToolNode(state, outcomes), "agent", llm_input, outcomes)
  /\ UNCHANGED iteration_counter

(***************************************************************************)
(* Plan-and-Solve.                                                         *)
(***************************************************************************)
\* a stripped non-empty line that starts with a digit or "-"
IsStepLine(line) ==
  LET t == Strip(line)
  IN t # "" /\ (SubSeq(t, 1, 1) \in Digits \/ StartsWith(t, "-"))

\* plan_steps that keeps the marked lines as they are, not stripped
plan_steps_unstripped(lines) == SelectSeq(lines, IsStepLine)

\* [line.strip() for line in lines if line.strip() and (... isdigit() or ... startswith("-"))]
plan_steps(lines) ==
  LET kept == SelectSeq(lines, IsStepLine)
  IN [i \in 1..Len(kept) |-> Strip(kept[i])]

\* responses of the model without tools, asked for a plan
PlanTexts ==
  { "1. Search for cache\n2. Read the source",
    "Plan:\n  - search the symbols\n\n2) read them\n",
    "Look at the cache manager.\n" }

\* str(list of str)
PyListRepr(seq) == "[" \o Join([i \in 1..Len(seq) |-> "'" \o seq[i] \o "'"], ", ") \o "]"

PS_PLANNER_SYSTEM_PROMPT == "You are a planning assistant. Do NOT execute the plan."

PS_EXECUTOR_SYSTEM_PROMPT(plan) ==
  "You have been given a plan to follow.\nThe plan is:\n" \o plan \o "\nExecute all steps."

ps_planner_request(st) == <<SystemMessage(PS_PLANNER_SYSTEM_PROMPT)>> \o st.messages

ps_planner_node(st, response) ==
  LET plan_text == response.content
      steps_ == plan_steps(Split(Strip(plan_text), "\n"))
  IN [messages |-> <<response>>,
      plan |-> IF steps_ # <<>> THEN steps_ ELSE <<plan_text>>]

ps_executor_request(st) ==
  LET plan == IF "plan" \in DOMAIN st THEN PyListRepr(st.plan) ELSE ""
  IN <<SystemMessage(PS_EXECUTOR_SYSTEM_PROMPT(plan))>> \o st.messages

\* ps_executor_node that takes the step it worked on off the plan
ps_executor_node_pop(st, response) ==
  [messages |-> <<response>>, final_answer |-> response.content,
   plan |-> IF Get(st, "plan", <<>>) = <<>> THEN <<>> ELSE Tail(st.plan)]

\* ps_executor_node that keeps a final_answer already written
ps_executor_node_keep(st, response) ==
  [messages |-> <<response>>,
   final_answer |-> IF Truthy(Get(st, "final_answer", None)) THEN st.final_answer
                    ELSE response.content]

ps_executor_node(st, response) ==
  [messages |-> <<response>>, final_answer |-> response.content]

PsPlanner ==
  /\ Running("plan_solve", "planner")
  /\ \E text \in PlanTexts :
       Advance("planner", ps_planner_node(state, AIMessage(text, <<>>)), "executor",
               ps_planner_request(state), <<>>)
  /\ UNCHANGED iteration_counter

PsExecutor ==
  /\ Running("plan_solve", "executor")
  /\ \E response \in ToolModelResponses :
       LET upd == ps_executor_node(state, response)
       IN Advance("executor", upd, tools_condition(Merge(state, upd)),
                  ps_executor_request(state), <<>>)
  /\ UNCHANGED iteration_counter

PsTools ==
  /\ Running("plan_solve", "tools")
  /\ \E outcomes \in OutcomeChoices(Last(state.messages).tool_calls) :
       Advance("tools", ToolNode(state, outcomes), "executor", llm_input, outcomes)
  /\ UNCHANGED iteration_counter

(***************************************************************************)
(* Reflexion.                                                              *)
(***************************************************************************)
REFLEXION_MAX_ITERATIONS == 3

ACTOR_SYSTEM_PROMPT(critique_context) ==
  "You are a code analysis assistant.\n\n" \o critique_context
    \o "\n\nUse the available tools."

CRITIQUE_SYSTEM_PROMPT(answer) ==
  "Evaluate the following answer:\n" \o answer \o "\nRespond with a verdict."

\* responses of the model asked for a verdict
CritiqueTexts ==
  { "VERDICT: GOOD",
    "VERDICT: BAD\nFEEDBACK: cite the source",
    "Cannot tell." }

rx_actor_request(st) ==
  LET critique == Get(st, "critique", "")
      critique_context ==
        IF critique # "" /\ Contains(critique, "BAD")
          THEN "\nPREVIOUS ATTEMPT WAS INSUFFICIENT. Please improve based on this feedback:\n"
                 \o critique \o "\n\nTry again with more thorough research and analysis."
          ELSE ""
      system_msg == ACTOR_SYSTEM_PROMPT(critique_context)
      messages == Get(st, "messages", <<>>)
  IN IF messages # <<>> /\ messages[1].type = "system"
       THEN <<SystemMessage(system_msg)>> \o Tail(messages)
       ELSE <<SystemMessage(system_msg)>> \o messages

rx_actor_node(st, response) ==
  [messages |-> <<response>>, draft_answer |-> response.content]

rx_critique_request(st) ==
  << SystemMessage(CRITIQUE_SYSTEM_PROMPT(Get(st, "draft_answer", ""))),
     HumanMessage("Please evaluate this answer.") >>

\* rx_critique_node that leaves the counter alone on a good verdict
rx_critique_node_skip(st, response) ==
  [critique |-> response.content,
   iteration |-> Get(st, "iteration", 0)
                   + (IF Contains(response.content, "VERDICT: GOOD") THEN 0 ELSE 1)]

rx_critique_node(st, response) ==
  [critique |-> response.content, iteration |-> Get(st, "iteration", 0) + 1]

rx_finalize_node(st) == [final_answer |-> Get(st, "draft_answer", "")]

\* rx_decide_actor_path that goes to critique as soon as there is content
rx_decide_actor_path_content(st) ==
  IF Last(st.messages).content = "" /\ Last(st.messages).tool_calls # <<>>
    THEN "tools"
    ELSE "critique"

rx_decide_actor_path(st) ==
  IF Last(st.messages).tool_calls # <<>> THEN "tools" ELSE "critique"

\* rx_should_continue with > in place of >=
rx_should_continue_gt(st) ==
  IF Contains(Get(st, "critique", ""), "VERDICT: GOOD")
       \/ Get(st, "iteration", 0) > REFLEXION_MAX_ITERATIONS
    THEN END
    ELSE "actor"

rx_should_continue(st) ==
  IF Contains(Get(st, "critique", ""), "VERDICT: GOOD")
       \/ Get(st, "iteration", 0) >= REFLEXION_MAX_ITERATIONS
    THEN END
    ELSE "actor"

\* rx_critique_edge whose map sends "__end__" to the terminal
rx_critique_edge_end(st) == rx_should_continue(st)

\* the edge map of critique: "__end__" leads to finalize
rx_critique_edge(st) == IF rx_should_continue(st) = END THEN "finalize" ELSE "actor"

RxActor ==
  /\ Running("reflexion", "actor")
  /\ \E response \in ToolModelResponses :
       LET upd == rx_actor_node(state, response)
       IN Advance("actor", upd, rx_decide_actor_path(Merge(state, upd)),
                  rx_actor_request(state), <<>>)
  /\ UNCHANGED iteration_counter

RxTools ==
  /\ Running("reflexion", "tools")
  /\ \E outcomes \in OutcomeChoices(Last(state.messages).tool_calls) :
       Advance("tools", ToolNode(state, outcomes), "actor", llm_input, outcomes)
  /\ UNCHANGED iteration_counter

RxCritique ==
  /\ Running("reflexion", "critique")
  /\ \E text \in CritiqueTexts :
       LET upd == rx_critique_node(state, AIMessage(text, <<>>))
       IN Advance("critique", upd, rx_critique_edge(Merge(state, upd)),
                  rx_critique_request(state), <<>>)
  /\ UNCHANGED iteration_counter

RxFinalize ==
  /\ Running("reflexion", "finalize")
  /\ Advance("finalize", rx_finalize_node(state), END, llm_input, <<>>)
  /\ UNCHANGED iteration_counter

(***************************************************************************)
(* AdaPlanner.                                                             *)
(***************************************************************************)
ADA_PLANNER_SYSTEM_PROMPT == "You are a strategic planner. Output your plan as a numbered list."

ADA_EXECUTOR_SYSTEM_PROMPT(step_num, plan, current_step, completed_steps) ==
  "You are executing step " \o step_num \o " of a code analysis plan.\nThe full plan is:\n"
    \o plan \o "\nCurrent step to execute: " \o current_step
    \o "\nPreviously completed steps:\n" \o completed_steps

REPLANNER_SYSTEM_PROMPT(question, plan, completed_info, current_index, total_steps) ==
  "Original question: " \o question \o "\nCurrent plan:\n" \o plan
    \o "\nCompleted steps and their results:\n" \o completed_info
    \o "\nCurrent step index: " \o current_index \o " of " \o total_steps

\* responses of the model with tools bound, asked to execute a step
AdaResponses ==
  { AIMessage("Checking.", <<TC_source, TC_bogus, TC_search>>),
    AIMessage("Found it.", <<>>),
    AIMessage("", <<>>) }

\* responses of the model asked for a re-planning decision
ReplanTexts ==
  { "DECISION: CONTINUE",
    "DECISION: MODIFY\nNEW_PLAN: 1. X\n2. Y",
    "DECISION: MODIFY\nNEW_PLAN: Read the cache manager source.",
    "DECISION: FINISHED\nANSWER: It is an LRU cache.",
    "DECISION: FINISHED\nANSWER:",
    "DECISION: MODIFY\nNEW_PLAN: 1. X\nDECISION: FINISHED",
    "DECISION: MODIFY",
    "Keep going." }

\* "\n".join(f"{i + 1}. {s}" for i, s in enumerate(plan))
plan_formatted(plan) ==
  Join([i \in 1..Len(plan) |-> IntToStr(i) \o ". " \o plan[i]], "\n")

ada_planner_request(st) ==
  <<SystemMessage(ADA_PLANNER_SYSTEM_PROMPT)>> \o Get(st, "messages", <<>>)

ada_planner_node(st, response) ==
  LET steps_ == plan_steps(Split(Strip(response.content), "\n"))
  IN [messages |-> <<response>>,
      current_plan |-> IF steps_ # <<>> THEN steps_ ELSE <<response.content>>,
      completed_steps |-> <<>>,
      current_step_index |-> 0]

\* the executor returns early, without a model call
ada_executor_noop(st) ==
  Get(st, "current_step_index", 0) >= Len(Get(st, "current_plan", <<>>))

\* the messages the executor sends to the model
ada_executor_request(st) ==
  LET plan == Get(st, "current_plan", <<>>)
      step_index == Get(st, "current_step_index", 0)
      completed == Get(st, "completed_steps", <<>>)
      executor_messages == Get(st, "executor_messages", <<>>)
      current_step == plan[step_index + 1]
      system_msg ==
        ADA_EXECUTOR_SYSTEM_PROMPT(IntToStr(step_index + 1), plan_formatted(plan), current_step,
                                   IF completed # <<>> THEN Join(completed, "\n") ELSE "None yet")
  IN IF executor_messages = <<>>
       THEN <<SystemMessage(system_msg), HumanMessage("Execute this step: " \o current_step)>>
       ELSE executor_messages

\* ada_executor_node that builds the instruction anew at every visit
ada_executor_node_rebuild(st, response) ==
  IF ada_executor_noop(st)
    THEN [messages |-> <<>>]
    ELSE [messages |-> <<response>>,
          executor_messages |->
            ada_executor_request(Merge(st, [executor_messages |-> <<>>])) \o <<response>>]

ada_executor_node(st, response) ==
  IF ada_executor_noop(st)
    THEN [messages |-> <<>>]
    ELSE [messages |-> <<response>>,
          executor_messages |-> ada_executor_request(st) \o <<response>>]

RECURSIVE ada_tool_results_reraise(_, _)
\* ada_tool_results that gives no message for an invocation that raised
ada_tool_results_reraise(tcs, outcomes) ==
  IF tcs = <<>> THEN <<>>
  ELSE LET tool_call == Head(tcs)
           out == Head(outcomes)
           this ==
             IF tool_call.name \in ToolRegistry /\ out.ok
               THEN <<ToolMessage(out.text, tool_call.id)>>
               ELSE <<>>
       IN this \o ada_tool_results_reraise(Tail(tcs), Tail(outcomes))

RECURSIVE ada_tool_results(_, _)
\* the loop over last_message.tool_calls: a request whose name resolves gives
\* one tool message, the result or the error; any other request gives none
ada_tool_results(tcs, outcomes) ==
  IF tcs = <<>> THEN <<>>
  ELSE LET tool_call == Head(tcs)
           out == Head(outcomes)
           this ==
             IF tool_call.name \in ToolRegistry
               THEN IF out.ok
                      THEN <<ToolMessage(out.text, tool_call.id)>>
                      ELSE <<ToolMessage("Error: " \o out.text, tool_call.id)>>
               ELSE <<>>
       IN this \o ada_tool_results(Tail(tcs), Tail(outcomes))

\* the requests the tools node acts on
ada_pending_calls(st) ==
  LET messages == Get(st, "messages", <<>>)
  IN IF messages = <<>> THEN <<>>
     ELSE IF Last(messages).type # "ai" THEN <<>>
     ELSE Last(messages).tool_calls

\* ada_tools_node without the early returns
ada_tools_node_no_return(st, outcomes) ==
  LET tool_results == ada_tool_results(ada_pending_calls(st), outcomes)
  IN [messages |-> tool_results,
      executor_messages |-> Get(st, "executor_messages", <<>>) \o tool_results]

ada_tools_node(st, outcomes) ==
  IF ada_pending_calls(st) = <<>>
    THEN EmptyUpdate
    ELSE LET tool_results == ada_tool_results(ada_pending_calls(st), outcomes)
         IN [messages |-> tool_results,
             executor_messages |-> Get(st, "executor_messages", <<>>) \o tool_results]

\* content of the most recent AI message, "" when there is none
last_ai_content(messages) ==
  LET I == {i \in 1..Len(messages) : messages[i].type = "ai"}
  IN IF I = {} THEN "" ELSE messages[CHOOSE i \in I : \A j \in I : j <= i].content

\* ada_record_step_node that does not move to the next step
ada_record_step_node_stay(st) ==
  LET plan == Get(st, "current_plan", <<>>)
      step_index == Get(st, "current_step_index", 0)
      completed == Get(st, "completed_steps", <<>>)
      messages == Get(st, "messages", <<>>)
  IN IF step_index >= Len(plan) THEN EmptyUpdate
     ELSE [completed_steps |->
             completed \o <<"Step " \o IntToStr(step_index + 1) \o ": " \o plan[step_index + 1]
                              \o "\nResult: " \o last_ai_content(messages)>>,
           current_step_index |-> step_index,
           executor_messages |-> <<>>]

\* ada_record_step_node that leaves the step's message buffer as it is
ada_record_step_node_keep_buffer(st) ==
  LET plan == Get(st, "current_plan", <<>>)
      step_index == Get(st, "current_step_index", 0)
      completed == Get(st, "completed_steps", <<>>)
      messages == Get(st, "messages", <<>>)
  IN IF step_index >= Len(plan) THEN EmptyUpdate
     ELSE [completed_steps |->
             completed \o <<"Step " \o IntToStr(step_index + 1) \o ": " \o plan[step_index + 1]
                              \o "\nResult: " \o last_ai_content(messages)>>,
           current_step_index |-> step_index + 1]

ada_record_step_node(st) ==
  LET plan == Get(st, "current_plan", <<>>)
      step_index == Get(st, "current_step_index", 0)
      completed == Get(st, "completed_steps", <<>>)
      messages == Get(st, "messages", <<>>)
  IN IF step_index >= Len(plan) THEN EmptyUpdate
     ELSE [completed_steps |->
             completed \o <<"Step " \o IntToStr(step_index + 1) \o ": " \o plan[step_index + 1]
                              \o "\nResult: " \o last_ai_content(messages)>>,
           current_step_index |-> step_index + 1,
           executor_messages |-> <<>>]

\* content of the first human message, "" when there is none
original_question(messages) ==
  LET I == {i \in 1..Len(messages) : messages[i].type = "human"}
  IN IF I = {} THEN "" ELSE messages[SetMin(I)].content

ada_replanner_request(st) ==
  LET plan == Get(st, "current_plan", <<>>)
      completed == Get(st, "completed_steps", <<>>)
  IN << SystemMessage(
          REPLANNER_SYSTEM_PROMPT(original_question(Get(st, "messages", <<>>)),
                                  plan_formatted(plan),
                                  IF completed # <<>> THEN Join(completed, "\n") ELSE "None",
                                  IntToStr(Get(st, "current_step_index", 0)),
                                  IntToStr(Len(plan)))),
        HumanMessage("What should we do next?") >>

\* ada_replanner_node that looks for the modify decision first
ada_replanner_node_modify_first(st, response) ==
  LET content == response.content
      plan == Get(st, "current_plan", <<>>)
  IN IF Contains(content, "DECISION: MODIFY") /\ Contains(content, "NEW_PLAN:")
       THEN LET new_plan_text == Strip(Last(Split(content, "NEW_PLAN:")))
                new_plan == plan_steps(Split(new_plan_text, "\n"))
            IN [messages |-> <<response>>,
                current_plan |-> IF new_plan # <<>> THEN new_plan ELSE plan,
                current_step_index |-> 0]
     ELSE IF Contains(content, "DECISION: FINISHED")
       THEN [messages |-> <<response>>,
             final_answer |-> IF Contains(content, "ANSWER:")
                                THEN Strip(Last(Split(content, "ANSWER:")))
                                ELSE content]
     ELSE [messages |-> <<response>>]

\* ada_replanner_node whose modify branch takes the new plan even when empty
ada_replanner_node_empty_plan(st, response) ==
  LET content == response.content
      plan == Get(st, "current_plan", <<>>)
  IN IF Contains(content, "DECISION: FINISHED")
       THEN [messages |-> <<response>>,
             final_answer |-> IF Contains(content, "ANSWER:")
                                THEN Strip(Last(Split(content, "ANSWER:")))
                                ELSE content]
     ELSE IF Contains(content, "DECISION: MODIFY") /\ Contains(content, "NEW_PLAN:")
       THEN LET new_plan_text == Strip(Last(Split(content, "NEW_PLAN:")))
                new_plan == plan_steps(Split(new_plan_text, "\n"))
            IN [messages |-> <<response>>,
                current_plan |-> new_plan,
                current_step_index |-> 0]
     ELSE [messages |-> <<response>>]

\* ada_replanner_node whose modify branch keeps the step index
ada_replanner_node_keep_index(st, response) ==
  LET content == response.content
      plan == Get(st, "current_plan", <<>>)
  IN IF Contains(content, "DECISION: FINISHED")
       THEN [messages |-> <<response>>,
             final_answer |-> IF Contains(content, "ANSWER:")
                                THEN Strip(Last(Split(content, "ANSWER:")))
                                ELSE content]
     ELSE IF Contains(content, "DECISION: MODIFY") /\ Contains(content, "NEW_PLAN:")
       THEN LET new_plan_text == Strip(Last(Split(content, "NEW_PLAN:")))
                new_plan == plan_steps(Split(new_plan_text, "\n"))
            IN [messages |-> <<response>>,
                current_plan |-> IF new_plan # <<>> THEN new_plan ELSE plan]
     ELSE [messages |-> <<response>>]

ada_replanner_node(st, response) ==
  LET content == response.content
      plan == Get(st, "current_plan", <<>>)
  IN IF Contains(content, "DECISION: FINISHED")
       THEN [messages |-> <<response>>,
             final_answer |-> IF Contains(content, "ANSWER:")
                                THEN Strip(Last(Split(content, "ANSWER:")))
                                ELSE content]
     ELSE IF Contains(content, "DECISION: MODIFY") /\ Contains(content, "NEW_PLAN:")
       THEN LET new_plan_text == Strip(Last(Split(content, "NEW_PLAN:")))
                new_plan == plan_steps(Split(new_plan_text, "\n"))
            IN [messages |-> <<response>>,
                current_plan |-> IF new_plan # <<>> THEN new_plan ELSE plan,
                current_step_index |-> 0]
     ELSE [messages |-> <<response>>]

\* ada_decide_executor_path that records the step as soon as there is content
ada_decide_executor_path_content(st) ==
  IF Last(st.messages).content = "" THEN "tools" ELSE "record_step"

ada_decide_executor_path(st) == IF has_tool_calls(st) THEN "tools" ELSE "record_step"

\* ada_should_continue that looks at the step index before the answer
ada_should_continue_index_first(st) ==
  IF Get(st, "current_step_index", 0) < Len(Get(st, "current_plan", <<>>))
    THEN "executor"
  ELSE END

\* ada_should_continue that goes on while the index is <= the plan length
ada_should_continue_le(st) ==
  IF Truthy(Get(st, "final_answer", None)) THEN END
  ELSE IF Get(st, "current_step_index", 0) <= Len(Get(st, "current_plan", <<>>))
    THEN "executor"
  ELSE END

ada_should_continue(st) ==
  IF Truthy(Get(st, "final_answer", None)) THEN END
  ELSE IF Get(st, "current_step_index", 0) < Len(Get(st, "current_plan", <<>>))
    THEN "executor"
  ELSE END

AdaPlanner ==
  /\ Running("ada_planner", "planner")
  /\ \E text \in PlanTexts :
       Advance("planner", ada_planner_node(state, AIMessage(text, <<>>)), "executor",
               ada_planner_request(state), <<>>)
  /\ UNCHANGED iteration_counter

AdaExecutor ==
  /\ Running("ada_planner", "executor")
  /\ \E response \in AdaResponses :
       LET upd == ada_executor_node(state, response)
       IN Advance("executor", upd, ada_decide_executor_path(Merge(state, upd)),
                  IF ada_executor_noop(state) THEN llm_input ELSE ada_executor_request(state),
                  <<>>)
  /\ UNCHANGED iteration_counter

AdaTools ==
  /\ Running("ada_planner", "tools")
  /\ \E outcomes \in OutcomeChoices(ada_pending_calls(state)) :
       Advance("tools", ada_tools_node(state, outcomes), "executor", llm_input, outcomes)
  /\ UNCHANGED iteration_counter

AdaRecordStep ==
  /\ Running("ada_planner", "record_step")
  /\ Advance("record_step", ada_record_step_node(state), "replanner", llm_input, <<>>)
  /\ UNCHANGED iteration_counter

AdaReplanner ==
  /\ Running("ada_planner", "replanner")
  /\ \E text \in ReplanTexts :
       LET upd == ada_replanner_node(state, AIMessage(text, <<>>))
       IN Advance("replanner", upd, ada_should_continue(Merge(state, upd)),
                  ada_replanner_request(state), <<>>)
  /\ UNCHANGED iteration_counter

(***************************************************************************)
(* LATS (best-of-N).                                                       *)
(***************************************************************************)
NUM_CANDIDATES == 3

\* the max_iterations argument of the builder
max_iterations == 2

\* scores are held in hundredths: 0.9 is 90
ScoreScale == 100

\* the default score, 0.5
DefaultScore == 50

ContextChars == 200

RawChars == 300

ResultChars == 500

GENERATOR_SYSTEM_PROMPT(num_candidates, context, best_path) ==
  "Generate " \o num_candidates \o " DIFFERENT approaches.\nCurrent context:\n" \o context
    \o "\nBest path so far:\n" \o best_path

EVALUATOR_SYSTEM_PROMPT(question, candidates_with_results) ==
  "Original question: " \o question \o "\nHere are the candidates with their executed results:\n"
    \o candidates_with_results

SELECTOR_SYSTEM_PROMPT(best_result, previous_path) ==
  "Best candidate result:\n" \o best_result \o "\nPrevious best path:\n" \o previous_path

\* responses of the model asked for candidates
GeneratorTexts ==
  { "CANDIDATE 1:\nApproach: search\nTool: search_symbols\nArgs: {\"query\": \"cache\"}\n\nCANDIDATE 2:\nApproach: read\nTool: get_source_code\nArgs: {\"node_id\": \"n1\"}",
    "CANDIDATE 1:\nApproach: think first\n\nCANDIDATE 2:\nApproach: search\nTool: search_symbols\nArgs: {\"query\": \"cache\"}",
    "CANDIDATE 1:\nApproach: search\nTool: search_symbols\nArgs: {query: cache}",
    "CANDIDATE 1: a\nCANDIDATE 2: b\nCANDIDATE 3: c\nCANDIDATE 4: d",
    "I have no idea." }

\* responses of the model asked for scores
EvaluatorTexts ==
  { "CANDIDATE 1: 0.9\nCANDIDATE 2: 0.2\nBEST: 1\nSOLVED: YES",
    "CANDIDATE 1: 0.4\nCANDIDATE 2: 0.7\nBEST: 2\nSOLVED: NO" }

\* responses of the model asked to fold the best result into the path
SelectorTexts == { "The cache is an LRU map." }

\* Python None, where a parsed JSON value or nothing is stored
ArgsNone == [kind |-> "none", size |-> 0, text |-> ""]

\* bool(args)
ArgsTruthy(args) == args.kind # "none" /\ args.size > 0

\* json.loads on the texts of the model: the empty object, an object with one
\* string member, and everything else a parse error
JsonLoads(s) ==
  IF s = "{}" THEN [ok |-> TRUE, value |-> [kind |-> "dict", size |-> 0, text |-> s]]
  ELSE IF /\ StartsWith(s, "{\"")
          /\ Len(s) >= 10
          /\ SubSeq(s, Len(s) - 1, Len(s)) = "\"}"
          /\ Contains(s, "\": \"")
    THEN [ok |-> TRUE, value |-> JsonDict1(s)]
  ELSE [ok |-> FALSE, value |-> ArgsNone]

RECURSIVE Replace(_, _, _)
\* s.replace(old, new)
Replace(s, old, new) ==
  LET i == Find(s, old)
  IN IF i = 0 THEN s
     ELSE SubSeq(s, 1, i - 1) \o new \o Replace(SubSeq(s, i + Len(old), Len(s)), old, new)

RECURSIVE candidate_fields(_, _)
\* the loop over the lines of one part: a later Tool:/Args: line overrides
candidate_fields(lines, c) ==
  IF lines = <<>> THEN c
  ELSE LET line == Head(lines)
           c2 == IF StartsWith(line, "Tool:")
                   THEN [c EXCEPT !.tool = Strip(Replace(line, "Tool:", ""))]
                 ELSE IF StartsWith(line, "Args:")
                   THEN LET r == JsonLoads(Strip(Replace(line, "Args:", "")))
                        IN IF r.ok THEN [c EXCEPT !.args = r.value] ELSE c
                 ELSE c
       IN candidate_fields(Tail(lines), c2)

\* parse_candidates that takes every part, however many there are
parse_candidates_all(content) ==
  LET kept == Tail(Split(content, "CANDIDATE"))
  IN [i \in 1..Len(kept) |->
        candidate_fields(Split(Strip(kept[i]), "\n"),
                         [raw |-> Strip(kept[i]), tool |-> None, args |-> ArgsNone,
                          result |-> None])]

\* the candidates parsed from the generator's text
parse_candidates(content) ==
  LET parts == Tail(Split(content, "CANDIDATE"))
      kept == SubSeq(parts, 1, Min2(Len(parts), NUM_CANDIDATES))
  IN [i \in 1..Len(kept) |->
        candidate_fields(Split(Strip(kept[i]), "\n"),
                         [raw |-> Strip(kept[i]), tool |-> None, args |-> ArgsNone,
                          result |-> None])]

\* "\n".join of the last five messages, each cut to 200 characters
lats_context(messages) ==
  LET recent == SubSeq(messages, IF Len(messages) > 5 THEN Len(messages) - 4 ELSE 1, Len(messages))
  IN Join([i \in 1..Len(recent) |->
             IF Len(recent[i].content) > ContextChars
               THEN recent[i].type \o ": " \o Truncate(recent[i].content, ContextChars) \o "..."
               ELSE recent[i].type \o ": " \o recent[i].content], "\n")

lats_generator_request(st) ==
  << SystemMessage(GENERATOR_SYSTEM_PROMPT(IntToStr(NUM_CANDIDATES),
                                           lats_context(Get(st, "messages", <<>>)),
                                           Get(st, "best_path", "No progress yet"))),
     HumanMessage("Generate diverse candidate approaches.") >>

generator_node(st, response) ==
  [candidates |-> parse_candidates(response.content),
   current_candidate_index |-> 0,
   messages |-> <<response>>]

execute_candidate_node(st) ==
  LET candidates == Get(st, "candidates", <<>>)
      current_idx == Get(st, "current_candidate_index", 0)
      candidate == candidates[current_idx + 1]
  IN IF current_idx >= Len(candidates) THEN EmptyUpdate
     ELSE IF Truthy(candidate.tool) /\ ArgsTruthy(candidate.args)
       THEN [messages |->
               <<AIMessage("", <<ToolCall("call_" \o IntToStr(current_idx),
                                          candidate.tool, candidate.args)>>)>>]
     ELSE [current_candidate_index |-> current_idx + 1]

\* content of the most recent tool message, cut to 500 characters
recent_tool_result(messages) ==
  LET I == {i \in 1..Len(messages) : messages[i].type = "tool"}
  IN IF I = {} THEN "No result"
     ELSE Truncate(messages[CHOOSE i \in I : \A j \in I : j <= i].content, ResultChars)

\* process_tool_result_node that advances the cursor past the last candidate
process_tool_result_node_unguarded(st) ==
  LET candidates == Get(st, "candidates", <<>>)
      current_idx == Get(st, "current_candidate_index", 0)
  IN [candidates |->
        IF current_idx >= Len(candidates) THEN candidates
        ELSE [candidates EXCEPT ![current_idx + 1].result =
                recent_tool_result(Get(st, "messages", <<>>))],
      current_candidate_index |-> current_idx + 1]

process_tool_result_node(st) ==
  LET candidates == Get(st, "candidates", <<>>)
      current_idx == Get(st, "current_candidate_index", 0)
  IN IF current_idx >= Len(candidates) THEN EmptyUpdate
     ELSE [candidates |->
             [candidates EXCEPT ![current_idx + 1].result =
                recent_tool_result(Get(st, "messages", <<>>))],
           current_candidate_index |-> current_idx + 1]

decide_candidate_path(st) == IF has_tool_calls(st) THEN "tools" ELSE "next_candidate"

\* the edge map of execute_candidate: "next_candidate" leads to process_result
execute_candidate_edge(st) ==
  IF decide_candidate_path(st) = "tools" THEN "tools" ELSE "process_result"

should_continue_candidates(st) ==
  IF Get(st, "current_candidate_index", 0) < Len(Get(st, "candidates", <<>>))
    THEN "execute_candidate"
    ELSE "evaluator"

RECURSIVE StrToInt(_)
\* int(s) of a string of digits
StrToInt(s) ==
  IF s = "" THEN 0
  ELSE 10 * StrToInt(SubSeq(s, 1, Len(s) - 1))
         + (Find("0123456789", SubSeq(s, Len(s), Len(s))) - 1)

AllDigits(s) == \A i \in 1..Len(s) : SubSeq(s, i, i) \in Digits

\* float(tok), in hundredths: an optional sign, digits, an optional fraction
\* (of which two digits are kept); anything else is a ValueError
ParseFloat(tok) ==
  LET neg == StartsWith(tok, "-")
      body == IF neg \/ StartsWith(tok, "+") THEN SubSeq(tok, 2, Len(tok)) ELSE tok
      parts == Split(body, ".")
      whole == parts[1]
      frac == IF Len(parts) = 2 THEN parts[2] ELSE ""
      frac2 == Truncate(frac \o "00", 2)
      valid == /\ Len(parts) <= 2
               /\ AllDigits(whole) /\ AllDigits(frac)
               /\ Len(whole) + Len(frac) > 0
      magnitude == StrToInt(whole) * ScoreScale + StrToInt(frac2)
  IN IF valid THEN [ok |-> TRUE, value |-> IF neg THEN 0 - magnitude ELSE magnitude]
     ELSE [ok |-> FALSE, value |-> 0]

\* the first whitespace-separated token of s, "" when there is none
FirstToken(s) ==
  LET t == Strip(s)
      W == {i \in 1..Len(t) : SubSeq(t, i, i) \in Whitespace}
  IN IF W = {} THEN t ELSE SubSeq(t, 1, SetMin(W) - 1)

\* min(max(score, 0.0), 1.0)
Clamp(score) == IF score < 0 THEN 0 ELSE IF score > ScoreScale THEN ScoreScale ELSE score

\* the score a CANDIDATE line contributes
line_score(line) ==
  LET score_part == Strip(Last(Split(line, ":")))
      tok == FirstToken(score_part)
      r == ParseFloat(tok)
  IN IF tok # "" /\ r.ok THEN Clamp(r.value) ELSE DefaultScore

IsScoreLine(line) == StartsWith(Strip(line), "CANDIDATE") /\ Contains(line, ":")

\* the scores parsed from the evaluator's text, padded with 0.5
parse_scores(content, n) ==
  LET lines == SelectSeq(Split(content, "\n"), IsScoreLine)
      scores == [i \in 1..Len(lines) |-> line_score(lines[i])]
  IN IF Len(scores) < n
       THEN scores \o [i \in 1..(n - Len(scores)) |-> DefaultScore]
       ELSE scores

LowerChars == "abcdefghijklmnopqrstuvwxyz"

UpperChars == "ABCDEFGHIJKLMNOPQRSTUVWXYZ"

RECURSIVE Upper(_)
\* s.upper()
Upper(s) ==
  IF s = "" THEN ""
  ELSE LET i == Find(LowerChars, SubSeq(s, 1, 1))
       IN (IF i = 0 THEN SubSeq(s, 1, 1) ELSE SubSeq(UpperChars, i, i))
            \o Upper(SubSeq(s, 2, Len(s)))

\* c.get("result", "No result") or "No result"
result_text(c) == IF Truthy(c.result) THEN c.result ELSE "No result"

lats_evaluator_request(st) ==
  LET candidates == Get(st, "candidates", <<>>)
      candidates_text ==
        [i \in 1..Len(candidates) |->
           "CANDIDATE " \o IntToStr(i) \o ":\n" \o Truncate(candidates[i].raw, RawChars)
             \o "\nResult: " \o Truncate(result_text(candidates[i]), RawChars)]
  IN << SystemMessage(EVALUATOR_SYSTEM_PROMPT(original_question(Get(st, "messages", <<>>)),
                                              Join(candidates_text, "\n\n"))),
        HumanMessage("Evaluate and score the candidates.") >>

evaluator_node(st, response) ==
  [scores |-> parse_scores(response.content, Len(Get(st, "candidates", <<>>))),
   is_solved |-> Contains(Upper(response.content), "SOLVED: YES"),
   messages |-> <<response>>]

\* scores.index(max(scores)), 0-based
best_idx(scores) ==
  SetMin({i \in 1..Len(scores) : \A j \in 1..Len(scores) : scores[j] <= scores[i]}) - 1

\* the selector raises: the best index is past the candidates (IndexError) or
\* the best candidate's result is None (TypeError on best_result[:500])
selector_raises(st) ==
  LET candidates == Get(st, "candidates", <<>>)
      scores == Get(st, "scores", <<>>)
  IN /\ candidates # <<>>
     /\ scores # <<>>
     /\ \/ best_idx(scores) >= Len(candidates)
        \/ candidates[best_idx(scores) + 1].result = None

\* the result handed to the selector prompt
best_result(st) ==
  LET candidates == Get(st, "candidates", <<>>)
      scores == Get(st, "scores", <<>>)
  IN IF candidates # <<>> /\ scores # <<>>
       THEN candidates[best_idx(scores) + 1].result
       ELSE "No candidates evaluated"

lats_selector_request(st) ==
  << SystemMessage(SELECTOR_SYSTEM_PROMPT(Truncate(best_result(st), ResultChars),
                                          Get(st, "best_path", ""))),
     HumanMessage("Update the best path or provide final answer if solved.") >>

\* count is the closure's counter after its increment
selector_node(st, response, count) ==
  LET new_path == Get(st, "best_path", "") \o "\n\nIteration " \o IntToStr(count) \o ": "
                    \o Truncate(response.content, RawChars)
      result == [best_path |-> new_path, messages |-> <<response>>]
  IN IF Get(st, "is_solved", FALSE) \/ count >= max_iterations
       THEN Merge(result, [final_answer |-> response.content, is_solved |-> TRUE])
       ELSE result

lats_should_continue(st) ==
  IF Get(st, "is_solved", FALSE) \/ Truthy(Get(st, "final_answer", None))
    THEN END
    ELSE "generator"

LatsGenerator ==
  /\ Running("lats", "generator")
  /\ \E text \in GeneratorTexts :
       Advance("generator", generator_node(state, AIMessage(text, <<>>)), "execute_candidate",
               lats_generator_request(state), <<>>)
  /\ UNCHANGED iteration_counter

LatsExecuteCandidate ==
  /\ Running("lats", "execute_candidate")
  /\ LET upd == execute_candidate_node(state)
     IN Advance("execute_candidate", upd, execute_candidate_edge(Merge(state, upd)),
                llm_input, <<>>)
  /\ UNCHANGED iteration_counter

LatsTools ==
  /\ Running("lats", "tools")
  /\ \E outcomes \in OutcomeChoices(Last(state.messages).tool_calls) :
       Advance("tools", ToolNode(state, outcomes), "process_result", llm_input, outcomes)
  /\ UNCHANGED iteration_counter

LatsProcessResult ==
  /\ Running("lats", "process_result")
  /\ LET upd == process_tool_result_node(state)
     IN Advance("process_result", upd, should_continue_candidates(Merge(state, upd)),
                llm_input, <<>>)
  /\ UNCHANGED iteration_counter

LatsEvaluator ==
  /\ Running("lats", "evaluator")
  /\ \E text \in EvaluatorTexts :
       Advance("evaluator", evaluator_node(state, AIMessage(text, <<>>)), "selector",
               lats_evaluator_request(state), <<>>)
  /\ UNCHANGED iteration_counter

LatsSelector ==
  /\ Running("lats", "selector")
  /\ iteration_counter' = iteration_counter + 1
  /\ IF selector_raises(state)
       THEN Raise("selector", llm_input)
       ELSE \E text \in SelectorTexts :
              LET upd == selector_node(state, AIMessage(text, <<>>), iteration_counter + 1)
              IN Advance("selector", upd, lats_should_continue(Merge(state, upd)),
                         lats_selector_request(state), <<>>)

(***************************************************************************)
(* The specification.                                                      *)
(***************************************************************************)
Init ==
  /\ strategy \in Strategies
  /\ state \in Seeds(strategy)
  /\ iter0 = Get(state, "iteration", 0)
  /\ node = EntryPoint(strategy)
  /\ status = "running"
  /\ steps = 0
  /\ run = 1
  /\ iteration_counter = 0
  /\ last_node = None
  /\ last_update = EmptyUpdate
  /\ llm_input = <<>>
  /\ tool_outcomes = <<>>
  /\ visits = [n \in Nodes |-> 0]
  /\ fa_writes = 0

Next ==
  \/ ReactAgent
  \/ ReactTools
  \/ PsPlanner
  \/ PsExecutor
  \/ PsTools
  \/ RxActor
  \/ RxTools
  \/ RxCritique
  \/ RxFinalize
  \/ AdaPlanner
  \/ AdaExecutor
  \/ AdaTools
  \/ AdaRecordStep
  \/ AdaReplanner
  \/ LatsGenerator
  \/ LatsExecuteCandidate
  \/ LatsTools
  \/ LatsProcessResult
  \/ LatsEvaluator
  \/ LatsSelector
  \/ Abort
  \/ NewRun

Spec == Init /\ [][Next]_vars

\* the targets declared for the edge that leaves node n of strategy s
Edges(s, n) ==
  CASE s = "react" /\ n = "agent" -> {"tools", END}
    [] s = "react" /\ n = "tools" -> {"agent"}
    [] s = "plan_solve" /\ n = "planner" -> {"executor"}
    [] s = "plan_solve" /\ n = "executor" -> {"tools", END}
    [] s = "plan_solve" /\ n = "tools" -> {"executor"}
    [] s = "reflexion" /\ n = "actor" -> {"tools", "critique"}
    [] s = "reflexion" /\ n = "tools" -> {"actor"}
    [] s = "reflexion" /\ n = "critique" -> {"actor", "finalize"}
    [] s = "reflexion" /\ n = "finalize" -> {END}
    [] s = "ada_planner" /\ n = "planner" -> {"executor"}
    [] s = "ada_planner" /\ n = "executor" -> {"tools", "record_step"}
    [] s = "ada_planner" /\ n = "tools" -> {"executor"}
    [] s = "ada_planner" /\ n = "record_step" -> {"replanner"}
    [] s = "ada_planner" /\ n = "replanner" -> {"executor", END}
    [] s = "lats" /\ n = "generator" -> {"execute_candidate"}
    [] s = "lats" /\ n = "execute_candidate" -> {"tools", "process_result"}
    [] s = "lats" /\ n = "tools" -> {"process_result"}
    [] s = "lats" /\ n = "process_result" -> {"execute_candidate", "evaluator"}
    [] s = "lats" /\ n = "evaluator" -> {"selector"}
    [] s = "lats" /\ n = "selector" -> {"generator", END}
    [] OTHER -> {}

(***************************************************************************)
(* AdaPlanner's tools node invoked directly, on any State Record, not only *)
(* on those the executor's edge hands to it.                               *)
(***************************************************************************)
\* number of direct invocations in a row
DirectCalls == 3

\* the State Records handed to the node: no messages field, or up to two
\* messages; no other field, or the fields of a run at its second step
DirectStates ==
  LET msgs == { HumanMessage("How does caching work?"),
                AIMessage("Found it.", <<>>),
                AIMessage("Checking.", <<TC_source, TC_bogus, TC_search>>),
                ToolMessage("3 symbols", "call_a") }
      fields == { EmptyUpdate,
                  [current_plan |-> <<"1. X", "2. Y">>, current_step_index |-> 1,
                   completed_steps |-> <<"Step 1: 1. X\nResult: Found it.">>,
                   executor_messages |-> <<HumanMessage("Execute this step: 2. Y")>>,
                   final_answer |-> None] }
  IN fields
       \cup {Merge(f, [messages |-> m]) :
               f \in fields,
               m \in {<<>>} \cup {<<a>> : a \in msgs}
                      \cup {<<a, b>> : a \in msgs, b \in msgs}}

ToolsInit ==
  /\ strategy = "ada_planner"
  /\ state \in DirectStates
  /\ iter0 = 0
  /\ node = "tools"
  /\ status = "running"
  /\ steps = 0
  /\ run = 1
  /\ iteration_counter = 0
  /\ last_node = None
  /\ last_update = EmptyUpdate
  /\ llm_input = <<>>
  /\ tool_outcomes = <<>>
  /\ visits = [n \in Nodes |-> 0]
  /\ fa_writes = 0

\* one call of tools_node(state); its update is merged and it is called again
InvokeTools ==
  /\ strategy = "ada_planner"
  /\ node = "tools"
  /\ steps < DirectCalls
  /\ \E outcomes \in OutcomeChoices(ada_pending_calls(state)) :
       Advance("tools", ada_tools_node(state, outcomes), "tools", llm_input, outcomes)
  /\ UNCHANGED iteration_counter

ToolsSpec == ToolsInit /\ [][InvokeTools]_vars

(***************************************************************************)
(* Properties.                                                             *)
(***************************************************************************)
final_answer == Get(state, "final_answer", None)

\* C1: in every strategy, a node execution never shortens the message
\* sequence of its run: the sequence before is a prefix of the sequence after.
C1_MessagesNeverShrink ==
  [][run' = run =>
       /\ Len(state'.messages) >= Len(state.messages)
       /\ SubSeq(state'.messages, 1, Len(state.messages)) = state.messages]_vars

\* a node without a message field has run on a grown sequence, and the
\* AdaPlanner run has been through executor and record_step
C1_Witness ==
  /\ strategy = "ada_planner"
  /\ last_node = "record_step"
  /\ "messages" \notin DOMAIN last_update
  /\ visits["executor"] >= 2
  /\ Len(state.messages) >= 5

\* C2: in every run, at most one node execution writes final_answer.
C2_FinalAnswerWrittenOnce == fa_writes <= 1

\* C3: in every state in which final_answer is non-empty after a merge, the
\* cursor is at the terminal and the run is complete.
C3_AnswerEndsRun ==
  (last_node # None /\ Truthy(final_answer)) => (node = END /\ status = "done")

\* number of AI messages that carry tool calls
ToolCallMessages(messages) ==
  Cardinality({i \in 1..Len(messages) :
                 messages[i].type = "ai" /\ messages[i].tool_calls # <<>>})

\* C4: ReAct visits agent k+1 times and tools k times for k tool-call
\* responses followed by a content-only one; tools is always followed by
\* agent; the run ends exactly at the first agent response without tool
\* calls; final_answer is unset until then and is that response's content.
C4_ReactLoop ==
  strategy = "react" =>
    /\ visits["agent"] + visits["tools"] = steps
    /\ ToolCallMessages(state.messages) = visits["tools"] + (IF node = "tools" THEN 1 ELSE 0)
    /\ (last_node = "tools" => node = "agent")
    /\ (last_node = "agent" => (status = "done" <=> ~has_tool_calls(state)))
    /\ (status = "done" =>
          /\ last_node = "agent"
          /\ visits["agent"] = visits["tools"] + 1
          /\ Last(state.messages).type = "ai"
          /\ final_answer = Last(state.messages).content
          /\ fa_writes = 1)
    /\ (status # "done" => final_answer = None /\ fa_writes = 0)

\* a ReAct run has ended after two tool round-trips
C4_Witness ==
  /\ strategy = "react"
  /\ status = "done"
  /\ visits["tools"] = 2
  /\ visits["agent"] = 3

\* C5: the Reflexion iteration counter is its initial value plus the number
\* of critique passes of the run, whatever the actor and tools visits were.
C5_IterationCountsCritiques ==
  strategy = "reflexion" => Get(state, "iteration", 0) = iter0 + visits["critique"]

\* two critique passes, with tool round-trips before them
C5_Witness ==
  /\ strategy = "reflexion"
  /\ visits["critique"] = 2
  /\ visits["tools"] >= 2
  /\ Get(state, "iteration", 0) = iter0 + 2

\* C6: after critique the cursor is on finalize exactly when the verdict has
\* the good marker or iteration >= max_iterations, else on actor; a run
\* started at iteration 0 has at most max_iterations critique passes and is
\* on finalize after the pass that reaches the maximum; finalize ends the run.
C6_ReflexionLoopControl ==
  strategy = "reflexion" =>
    /\ (last_node = "critique" =>
          /\ node \in {"finalize", "actor"}
          /\ (node = "finalize" <=>
                \/ Contains(state.critique, "VERDICT: GOOD")
                \/ state.iteration >= REFLEXION_MAX_ITERATIONS))
    /\ (iter0 = 0 => visits["critique"] <= REFLEXION_MAX_ITERATIONS)
    /\ (iter0 = 0 /\ visits["critique"] = REFLEXION_MAX_ITERATIONS =>
          node \in {"finalize", END})
    /\ (last_node = "finalize" => node = END /\ status = "done")
    /\ (node = END => last_node = "finalize")

\* a run started at iteration 0 ended after max_iterations critique passes
\* without a good verdict
C6_Witness ==
  /\ strategy = "reflexion"
  /\ iter0 = 0
  /\ status = "done"
  /\ visits["critique"] = REFLEXION_MAX_ITERATIONS
  /\ ~Contains(state.critique, "VERDICT: GOOD")

ModifyXY == "DECISION: MODIFY\nNEW_PLAN: 1. X\n2. Y"

\* C7: after a replanner pass on the response ModifyXY the step index is 0,
\* the plan is exactly <<"1. X", "2. Y">>, the pass has not written
\* final_answer, which holds no answer, and the cursor is on executor.
C7_ModifyReplacesPlan ==
  (strategy = "ada_planner" /\ last_node = "replanner"
     /\ Last(state.messages).content = ModifyXY) =>
    /\ state.current_step_index = 0
    /\ state.current_plan = <<"1. X", "2. Y">>
    /\ "final_answer" \notin DOMAIN last_update
    /\ ~Truthy(final_answer)
    /\ node = "executor"

\* the modify decision came when the one-step plan was used up
C7_Witness ==
  /\ strategy = "ada_planner"
  /\ last_node = "replanner"
  /\ Last(state.messages).content = ModifyXY
  /\ state.messages[2].content = "Look at the cache manager.\n"
  /\ visits["record_step"] = 1
  /\ visits["replanner"] = 1
  /\ state.current_step_index = 0

\* C8: with the solved flag raised by the evaluator, the selector pass that
\* follows ends the run with final_answer written; on the response
\* "CANDIDATE 1: 0.9\nCANDIDATE 2: 0.2\nBEST: 1\nSOLVED: YES" with two
\* candidates the scores are <<0.9, 0.2>> and the best index is 0.
C8_SolvedEndsAtSelector ==
  strategy = "lats" =>
    /\ (last_node = "evaluator" /\ Len(state.candidates) = 2
          /\ Last(state.messages).content
               = "CANDIDATE 1: 0.9\nCANDIDATE 2: 0.2\nBEST: 1\nSOLVED: YES" =>
          /\ state.scores = <<90, 20>>
          /\ best_idx(state.scores) = 0
          /\ node = "selector")
    /\ (last_node = "selector" /\ Get(state, "is_solved", FALSE) =>
          /\ status = "done"
          /\ node = END
          /\ "final_answer" \in DOMAIN state
          /\ final_answer # None)

\* the tool messages that follow the most recent AI message
ResultsAfterLastAI(messages) ==
  LET I == {i \in 1..Len(messages) : messages[i].type = "ai"}
      a == CHOOSE i \in I : \A j \in I : j <= i
  IN SubSeq(messages, a + 1, Len(messages))

\* the tool calls of the most recent AI message
CallsOfLastAI(messages) ==
  LET I == {i \in 1..Len(messages) : messages[i].type = "ai"}
  IN messages[CHOOSE i \in I : \A j \in I : j <= i].tool_calls

\* C9: after AdaPlanner's tools node has run on requests c1..cn, exactly n
\* tool messages follow the triggering message, the i-th with the id of ci.
C9_OneResultPerRequest ==
  (strategy = "ada_planner" /\ last_node = "tools") =>
    LET tcs == CallsOfLastAI(state.messages)
        res == ResultsAfterLastAI(state.messages)
    IN /\ Len(res) = Len(tcs)
       /\ \A i \in 1..Len(res) :
            res[i].type = "tool" /\ res[i].tool_call_id = tcs[i].id

\* the indices of the requests whose name resolves
Resolved(tcs) == {i \in 1..Len(tcs) : tcs[i].name \in ToolRegistry}

\* C10: a raising tool is not fatal in AdaPlanner: the tools node gives one
\* tool message per resolved request, in order, the one of a raising
\* invocation holding "Error: " and the exception text under the request's
\* id; the run goes on at executor, and the messages the executor then sends
\* to the model hold the tool messages of the round-trip.
C10_ToolFailureNotFatal ==
  strategy = "ada_planner" =>
    /\ (last_node = "tools" =>
          LET tcs == CallsOfLastAI(state.messages)
              res == ResultsAfterLastAI(state.messages)
              R == Resolved(tcs)
          IN /\ Len(res) = Cardinality(R)
             /\ \A i \in R :
                  LET k == Cardinality({j \in R : j <= i})
                  IN /\ res[k].type = "tool"
                     /\ res[k].tool_call_id = tcs[i].id
                     /\ res[k].content =
                          (IF tool_outcomes[i].ok THEN tool_outcomes[i].text
                           ELSE "Error: " \o tool_outcomes[i].text)
             /\ node = "executor"
             /\ status # "error"
             /\ \A k \in 1..Len(res) :
                  \E m \in 1..Len(state.executor_messages) :
                    state.executor_messages[m] = res[k])
    /\ (last_node = "executor" /\ Len(state.messages) >= 2 =>
          LET msgs == state.messages
              n == Len(msgs)
          IN \A j \in 1..(n - 1) :
               (\A k \in j..(n - 1) : msgs[k].type = "tool") =>
                 \E m \in 1..Len(llm_input) : llm_input[m] = msgs[j])

\* the first invocation raised, the last one returned, and the run is on
\* its way back to executor
C10_Witness ==
  /\ strategy = "ada_planner"
  /\ last_node = "tools"
  /\ Len(tool_outcomes) = 3
  /\ ~tool_outcomes[1].ok
  /\ tool_outcomes[3].ok
  /\ node = "executor"
  /\ status = "running"

\* the latest message has no tool calls, or there is no message
NoToolCalls(st) ==
  LET messages == Get(st, "messages", <<>>)
  IN messages = <<>> \/ Last(messages).tool_calls = <<>>

\* C11: AdaPlanner's tools node, invoked on a State Record whose latest
\* message has no tool calls or that has no message, returns the empty
\* update and leaves every field of the State Record as it was.
C11_ToolsNoOp ==
  [][NoToolCalls(state) => (last_update' = EmptyUpdate /\ state' = state)]_vars

\* the node has been invoked three times in a row on a State Record whose
\* latest message is a content-only AI message
C11_Witness ==
  /\ node = "tools"
  /\ last_node = "tools"
  /\ visits["tools"] = DirectCalls
  /\ "messages" \in DOMAIN state
  /\ Len(state.messages) = 2
  /\ Last(state.messages) = AIMessage("Found it.", <<>>)
  /\ "executor_messages" \in DOMAIN state
  /\ last_update = EmptyUpdate

\* plan is the list of marked lines of text, or the raw text alone
PlanOf(text, plan) ==
  LET lines == Split(text, "\n")
      marked == {i \in 1..Len(lines) :
                   /\ Strip(lines[i]) # ""
                   /\ SubSeq(Strip(lines[i]), 1, 1) \in Digits \cup {"-"}}
  IN IF marked = {} THEN plan = <<text>>
     ELSE /\ Len(plan) = Cardinality(marked)
          /\ \A i \in marked :
               plan[Cardinality({j \in marked : j <= i})] = Strip(lines[i])

\* C12: after the planner of Plan-and-Solve or of AdaPlanner, the plan holds
\* the stripped non-empty lines of the response that start with a digit or
\* "-", in their order, or the raw response alone when there is no such
\* line; it is never empty.
C12_PlanParsing ==
  (strategy \in {"plan_solve", "ada_planner"} /\ last_node = "planner") =>
    LET plan == IF strategy = "plan_solve" THEN state.plan ELSE state.current_plan
    IN /\ PlanOf(Last(state.messages).content, plan)
       /\ plan # <<>>

\* the planner's response had no numbered or bulleted line
C12_Witness ==
  /\ strategy = "plan_solve"
  /\ last_node = "planner"
  /\ Last(state.messages).content = "Look at the cache manager.\n"
  /\ state.plan = <<"Look at the cache manager.\n">>

\* C13: in a LATS round no node raises, whatever the generator's and the
\* evaluator's texts are: no run of LATS ends with an exception.
C13_NoErrorRaisedInRound == strategy = "lats" => status # "error"

\* C14: a LATS run counts its own selector passes from zero: after the k-th
\* selector pass of a run the narrative's newest entry is numbered k, and the
\* pass ends the run exactly when the evaluator reported solved or k has
\* reached max_iterations, whatever earlier runs of the same graph did.
C14_CountersScopedToRun ==
  (strategy = "lats" /\ last_node = "selector" /\ status # "error") =>
    LET k == visits["selector"]
        msgs == state.messages
        solved == Contains(Upper(msgs[Len(msgs) - 1].content), "SOLVED: YES")
    IN /\ StartsWith(Last(Split(state.best_path, "\n\nIteration ")), IntToStr(k) \o ": ")
       /\ (node = END <=> (solved \/ k >= max_iterations))

\* C15: in AdaPlanner the step index stays between 0 and the length of the
\* current plan; a replanner pass that leaves the index at the plan length
\* is followed by the terminal, and the executor is never visited with the
\* index at the plan length.
C15_StepIndexWithinPlan ==
  strategy = "ada_planner" =>
    LET idx == Get(state, "current_step_index", 0)
        plan == Get(state, "current_plan", <<>>)
    IN /\ 0 <= idx
       /\ idx <= Len(plan)
       /\ (last_node = "replanner" /\ idx = Len(plan) => node = END /\ status = "done")
       /\ (node = "executor" => idx < Len(plan))
       /\ (last_node = "executor" => "executor_messages" \in DOMAIN last_update)

\* the replanner decided to continue after the second and last step
C15_Witness ==
  /\ strategy = "ada_planner"
  /\ last_node = "replanner"
  /\ Last(state.messages).content = "DECISION: CONTINUE"
  /\ Len(state.current_plan) = 2
  /\ state.current_step_index = 2
  /\ node = END

\* C16: at every node execution of a run, the LATS candidate cursor stays between 0 and the
\* number of candidates, changes only by +1 (in execute_candidate or
\* process_result) or to 0 in generator; the AdaPlanner step index changes
\* only by +1 in record_step, or to 0 in planner or in a replanner pass that
\* decided to modify.
C16_IndicesMonotonic ==
  [][(run' = run /\ steps' = steps + 1) =>
       /\ strategy = "lats" =>
            LET i == Get(state, "current_candidate_index", 0)
                j == Get(state', "current_candidate_index", 0)
            IN /\ 0 <= j /\ j <= Len(Get(state', "candidates", <<>>))
               /\ (last_node' = "generator" => j = 0)
               /\ (last_node' # "generator" => j >= i)
               /\ (j # i /\ last_node' # "generator" =>
                     /\ last_node' \in {"execute_candidate", "process_result"}
                     /\ j = i + 1)
       /\ strategy = "ada_planner" =>
            LET i == Get(state, "current_step_index", 0)
                j == Get(state', "current_step_index", 0)
            IN /\ (last_node' = "record_step" => j = i + 1)
               /\ (j # i /\ last_node' # "record_step" =>
                     /\ j = 0
                     /\ \/ last_node' = "planner"
                        \/ /\ last_node' = "replanner"
                           /\ Contains(Last(state'.messages).content, "DECISION: MODIFY"))
     ]_vars

\* both candidates of a round went through tools and process_result
C16_Witness ==
  /\ strategy = "lats"
  /\ last_node = "process_result"
  /\ visits["tools"] = 2
  /\ Len(state.candidates) = 2
  /\ state.current_candidate_index = 2

\* C17: after every node execution that returned, the cursor is on one of
\* the targets declared for the edge of the node that ran; the cursor is
\* always a defined node or the terminal, and on the terminal exactly when
\* the run is complete.
C17_DispatchWithinDeclaredSet ==
  /\ node \in Nodes \cup {END}
  /\ (node = END <=> status = "done")
  /\ (last_node # None /\ status # "error" => node \in Edges(strategy, last_node))
  /\ (last_node = None => node = EntryPoint(strategy))

\* Reflexion's critique dispatch returned "__end__" and the cursor is on
\* finalize
C17_Witness ==
  /\ strategy = "reflexion"
  /\ last_node = "critique"
  /\ rx_should_continue(state) = END
  /\ node = "finalize"
  /\ status = "running"

\* C18: a run never executes more nodes than the step limit; a run that has
\* used up the limit with the cursor off the terminal is aborted next, with
\* its State Record as it is; aborted is an outcome of its own, reached only
\* that way, and no node of the run executes after it.
C18_BoundedExecution ==
  [][/\ steps' <= StepLimit
     /\ (status' = "aborted" =>
           steps' = StepLimit /\ node' # END /\ status' \notin {"done", "error"})
     /\ (steps = StepLimit /\ status = "running" =>
           status' = "aborted" /\ state' = state /\ steps' = steps)
     /\ (status = "aborted" => run' # run)
    ]_vars

\* a ReAct run whose every agent response asked for tools was aborted
C18_Witness ==
  /\ strategy = "react"
  /\ status = "aborted"
  /\ steps = StepLimit
  /\ visits["agent"] + visits["tools"] = StepLimit
  /\ visits["agent"] = ToolCallMessages(state.messages)
  /\ final_answer = None

C20_PlanIsAdvisory ==
  strategy = "plan_solve" =>
    /\ (last_node = None => node = "planner" /\ visits["planner"] = 0)
    /\ (last_node # None =>
          /\ visits["planner"] = 1
          /\ node # "planner"
          /\ PlanOf(state.messages[2].content, state.plan))
    /\ (last_node \in {"executor", "tools"} => "plan" \notin DOMAIN last_update)
    /\ visits["executor"] =
         ToolCallMessages(state.messages) + (IF node = END THEN 1 ELSE 0)

\* a plan of two steps was followed by a single executor visit
C20_Witness ==
  /\ strategy = "plan_solve"
  /\ status = "done"
  /\ Len(state.plan) = 2
  /\ visits["planner"] = 1
  /\ visits["executor"] = 1
  /\ visits["tools"] = 0

\* C21: in Reflexion the cursor is on critique only right after an actor
\* response without tool calls; an actor response with tool calls is
\* followed by tools and tools by actor; after finalize final_answer is
\* draft_answer, the content of the most recent actor response, which has no
\* tool calls; before finalize final_answer is unset.
C21_ReflexionDraftToAnswer ==
  strategy = "reflexion" =>
    /\ (node = "critique" =>
          /\ last_node = "actor"
          /\ Last(state.messages).type = "ai"
          /\ Last(state.messages).tool_calls = <<>>)
    /\ (last_node = "actor" /\ Last(state.messages).tool_calls # <<>> => node = "tools")
    /\ (last_node = "tools" => node = "actor")
    /\ (last_node = "finalize" =>
          /\ final_answer = state.draft_answer
          /\ final_answer = last_ai_content(state.messages)
          /\ ~has_tool_calls(state)
          /\ fa_writes = 1)
    /\ (last_node # "finalize" => final_answer = None /\ fa_writes = 0)

\* the run ended after a tool round-trip and one critique pass
C21_Witness ==
  /\ strategy = "reflexion"
  /\ last_node = "finalize"
  /\ visits["tools"] = 1
  /\ visits["actor"] = 2
  /\ visits["critique"] = 1
  /\ final_answer = "The cache is an LRU map."

\* C22: when critique has sent the run back to actor, the instructions of
\* the actor's next model call contain the text of that critique.
C22_FeedbackInjected ==
  LET msgs == state.messages
  IN (strategy = "reflexion" /\ last_node = "actor"
        /\ Len(msgs) >= 2 /\ msgs[Len(msgs) - 1].type = "ai") =>
       /\ state.critique # ""
       /\ llm_input[1].type = "system"
       /\ Contains(llm_input[1].content, state.critique)

\* C23: after every replanner pass of AdaPlanner the cursor is on the
\* terminal when final_answer holds an answer, else on executor when the
\* step index is below the plan length, else on the terminal, with
\* final_answer still holding no answer.
C23_AdaTopLevelDispatch ==
  (strategy = "ada_planner" /\ last_node = "replanner") =>
    /\ (Truthy(final_answer) => node = END /\ status = "done")
    /\ (~Truthy(final_answer) /\ state.current_step_index < Len(state.current_plan) =>
          node = "executor" /\ status # "done")
    /\ (~Truthy(final_answer) /\ state.current_step_index >= Len(state.current_plan) =>
          node = END /\ status = "done")

\* the one-step plan was used up and the replanner decided to continue
C23_Witness ==
  /\ strategy = "ada_planner"
  /\ last_node = "replanner"
  /\ Len(state.current_plan) = 1
  /\ state.current_step_index = 1
  /\ final_answer = None
  /\ fa_writes = 0
  /\ node = END

\* C24: after a replanner pass whose response carries the finished decision,
\* final_answer is the text that follows the answer marker (the whole
\* response when there is no marker) and the run has ended at that pass.
C24_FinishedEndsRun ==
  (strategy = "ada_planner" /\ last_node = "replanner"
     /\ Contains(Last(state.messages).content, "DECISION: FINISHED")) =>
    LET content == Last(state.messages).content
        at == Find(content, "ANSWER:")
    IN /\ "final_answer" \in DOMAIN last_update
       /\ final_answer =
            (IF at = 0 THEN content
             ELSE Strip(SubSeq(content, at + Len("ANSWER:"), Len(content))))
       /\ node = END
       /\ status = "done"

\* C25: after a replanner pass that decided to modify, the plan is the one
\* parsed from the text after the new-plan marker by the planner's rule (the
\* marked lines in order, or that text alone when no line is marked) and the
\* step index is 0.
C25_ModifyParsesNewPlan ==
  (strategy = "ada_planner" /\ last_node = "replanner"
     /\ ~Contains(Last(state.messages).content, "DECISION: FINISHED")
     /\ Contains(Last(state.messages).content, "DECISION: MODIFY")
     /\ Contains(Last(state.messages).content, "NEW_PLAN:")) =>
    LET content == Last(state.messages).content
        at == Find(content, "NEW_PLAN:")
        new_plan_text == Strip(SubSeq(content, at + Len("NEW_PLAN:"), Len(content)))
    IN /\ PlanOf(new_plan_text, state.current_plan)
       /\ state.current_step_index = 0

\* C26: a record_step pass of AdaPlanner appends one summary to
\* completed_steps (step number index+1, the plan step at the index, the
\* content of the executor's content-only response just before it), adds one
\* to the step index, empties executor_messages and leaves the plan, the
\* messages and final_answer alone; no other node changes completed_steps,
\* whose length is the number of record_step passes of the run.
C26_RecordStep ==
  [][(run' = run /\ steps' = steps + 1 /\ strategy = "ada_planner") =>
       LET completed == Get(state, "completed_steps", <<>>)
           idx == Get(state, "current_step_index", 0)
       IN /\ (last_node' = "record_step" =>
                /\ Last(state.messages).type = "ai"
                /\ Last(state.messages).tool_calls = <<>>
                /\ state'.completed_steps =
                     completed \o <<"Step " \o IntToStr(idx + 1) \o ": "
                                      \o state.current_plan[idx + 1] \o "\nResult: "
                                      \o Last(state.messages).content>>
                /\ state'.current_step_index = idx + 1
                /\ state'.executor_messages = <<>>
                /\ state'.current_plan = state.current_plan
                /\ state'.messages = state.messages
                /\ Get(state', "final_answer", None) = final_answer
                /\ ("final_answer" \in DOMAIN state' <=> "final_answer" \in DOMAIN state))
          /\ (last_node' # "record_step" =>
                Get(state', "completed_steps", <<>>) = completed)
          /\ Len(Get(state', "completed_steps", <<>>)) = visits'["record_step"]
     ]_vars

\* the second summary was recorded after a modify decision
C26_Witness ==
  /\ strategy = "ada_planner"
  /\ last_node = "record_step"
  /\ visits["record_step"] = 2
  /\ Len(state.completed_steps) = 2
  /\ \E i \in 1..Len(state.messages) : state.messages[i].content = ModifyXY
  /\ state.completed_steps[2] = "Step 1: 1. X\nResult: Found it."

\* C27: in AdaPlanner an executor response with tool calls is followed by
\* tools and tools by executor; the cursor is on record_step only right
\* after an executor response without tool calls and on replanner only right
\* after record_step; executor and tools write neither the step index nor
\* the plan nor completed_steps.
C27_AdaExecutorLoop ==
  strategy = "ada_planner" =>
    /\ (last_node = "executor" /\ Last(state.messages).tool_calls # <<>> => node = "tools")
    /\ (last_node = "tools" => node = "executor")
    /\ (node = "record_step" =>
          /\ last_node = "executor"
          /\ Last(state.messages).type = "ai"
          /\ Last(state.messages).tool_calls = <<>>)
    /\ (node = "replanner" => last_node = "record_step")
    /\ (last_node \in {"executor", "tools"} =>
          DOMAIN last_update
            \cap {"current_step_index", "current_plan", "completed_steps"} = {})

\* the step's second executor response, after one tool round-trip, had no
\* tool calls
C27_Witness ==
  /\ strategy = "ada_planner"
  /\ node = "record_step"
  /\ visits["executor"] = 2
  /\ visits["tools"] = 1
  /\ state.current_step_index = 0
  /\ Len(state.executor_messages) >= 5

\* number of occurrences of the candidate tag in text
TagCount(text) == Len(Split(text, "CANDIDATE")) - 1

\* C28: after a generator pass of LATS the candidate list holds one
\* candidate per candidate tag of the response, in the order of the tags, at
\* most NUM_CANDIDATES of them; each candidate has the fields raw, tool,
\* args and result, with no result; the cursor is 0; a candidate whose
\* argument text does not parse is in the list with its tool name and no
\* arguments.
C28_GeneratorCandidates ==
  (strategy = "lats" /\ last_node = "generator") =>
    LET text == Last(state.messages).content
        cs == state.candidates
    IN /\ Len(cs) = Min2(TagCount(text), NUM_CANDIDATES)
       /\ \A i \in 1..Len(cs) :
            /\ DOMAIN cs[i] = {"raw", "tool", "args", "result"}
            /\ cs[i].result = None
            /\ cs[i].raw = Strip(Split(text, "CANDIDATE")[i + 1])
            /\ \A j \in 1..Len(cs) :
                 i < j => Find(text, cs[i].raw) < Find(text, cs[j].raw)
            /\ (Contains(cs[i].raw, "Args: {query: cache}") =>
                  cs[i].tool = "search_symbols" /\ cs[i].args = ArgsNone)
            /\ (Contains(cs[i].raw, "Args: {\"query\": \"cache\"}") =>
                  cs[i].tool = "search_symbols" /\ ArgsTruthy(cs[i].args))
       /\ state.current_candidate_index = 0

\* the response had four candidate tags
C28_Witness ==
  /\ strategy = "lats"
  /\ last_node = "generator"
  /\ TagCount(Last(state.messages).content) = 4
  /\ Len(state.candidates) = NUM_CANDIDATES
  /\ state.candidates[3].raw = "3: c"

\* the messages of the current round: those after the latest generator response
RoundMessages(messages) ==
  LET G == {i \in 1..Len(messages) :
              messages[i].type = "ai" /\ messages[i].content \in GeneratorTexts}
  IN IF G = {} THEN <<>>
     ELSE SubSeq(messages, (CHOOSE i \in G : \A j \in G : j <= i) + 1, Len(messages))

\* the candidates that carry a tool and arguments
Paired(cs) == {i \in 1..Len(cs) : Truthy(cs[i].tool) /\ ArgsTruthy(cs[i].args)}

\* the tool-call messages among messages
ToolCallsIn(messages) ==
  SelectSeq(messages, LAMBDA m : m.type = "ai" /\ m.tool_calls # <<>>)

\* C29: when the cursor of a LATS round is on evaluator, the cursor index
\* is the number of candidates, execute_candidate has handled each candidate
\* once (in the first round: as many visits as candidates), and the round
\* holds one synthesized tool-call message per candidate with a tool and
\* arguments, in order, made at that candidate's cursor value.
C29_EachCandidateExecutedOnce ==
  (strategy = "lats" /\ node = "evaluator") =>
    LET cs == state.candidates
        calls == ToolCallsIn(RoundMessages(state.messages))
        P == Paired(cs)
    IN /\ state.current_candidate_index = Len(cs)
       /\ (visits["generator"] = 1 /\ cs # <<>> => visits["execute_candidate"] = Len(cs))
       /\ Len(calls) = Cardinality(P)
       /\ \A i \in P :
            LET k == Cardinality({j \in P : j <= i})
            IN /\ Len(calls[k].tool_calls) = 1
               /\ calls[k].tool_calls[1].id = "call_" \o IntToStr(i - 1)
               /\ calls[k].tool_calls[1].name = cs[i].tool

\* C30: when the cursor of a LATS round is on evaluator, the result of each
\* candidate with a tool and arguments is the content, cut to 500
\* characters, of the tool message that answers that candidate's own tool
\* call of this round, and a candidate without them has no result.
C30_OwnResultAttached ==
  (strategy = "lats" /\ node = "evaluator") =>
    LET cs == state.candidates
        round == RoundMessages(state.messages)
    IN \A i \in 1..Len(cs) :
         IF i \in Paired(cs)
           THEN \E k \in 1..Len(round) :
                  /\ round[k].type = "tool"
                  /\ round[k].tool_call_id = "call_" \o IntToStr(i - 1)
                  /\ cs[i].result = Truncate(round[k].content, ResultChars)
           ELSE cs[i].result \in {None, "No result"}

\* the CANDIDATE score lines of an evaluator text
ScoreLines(content) == SelectSeq(Split(content, "\n"), IsScoreLine)

\* C31: right after an evaluator pass the score list has one score per
\* candidate of the round, every score lies between 0 and 1, candidates past
\* the score lines of the text hold 0.5, and the solved flag is true exactly
\* when the text carries SOLVED: YES.
C31_OneScorePerCandidate ==
  (strategy = "lats" /\ last_node = "evaluator" /\ node = "selector") =>
    LET cs == state.candidates
        text == Last(state.messages).content
    IN /\ Len(state.scores) = Len(cs)
       /\ \A i \in 1..Len(state.scores) :
            /\ state.scores[i] \in 0..ScoreScale
            /\ i > Len(ScoreLines(text)) => state.scores[i] = DefaultScore
       /\ state.is_solved = Contains(Upper(text), "SOLVED: YES")

\* the smallest position of scores that holds their maximum (1-based)
FirstMaximum(scores) ==
  CHOOSE m \in 1..Len(scores) :
    /\ \A j \in 1..Len(scores) : scores[j] <= scores[m]
    /\ \A j \in 1..(m - 1) : scores[j] < scores[m]

\* C32: a selector pass over a non-empty candidate list and score list
\* selects the candidate at the first position of the maximum score, and the
\* request it issues folds that candidate's result, cut to 500 characters,
\* into the previous best path.
C32_SelectsFirstMaximum ==
  [][(/\ strategy = "lats" /\ node = "selector" /\ status = "running"
      /\ steps' = steps + 1 /\ run' = run
      /\ Get(state, "candidates", <<>>) # <<>>
      /\ Get(state, "scores", <<>>) # <<>>)
     => LET m == FirstMaximum(state.scores)
        IN /\ m <= Len(state.candidates)
           /\ status' # "error"
           /\ llm_input' =
                << SystemMessage(SELECTOR_SYSTEM_PROMPT(
                     Truncate(state.candidates[m].result, ResultChars),
                     Get(state, "best_path", ""))),
                   HumanMessage("Update the best path or provide final answer if solved.") >>]_vars

\* C33: every selector pass adds one to the iteration counter; it writes
\* final_answer, marks the state solved and ends the run exactly when the
\* evaluator flagged solved or the counter has reached max_iterations, and
\* otherwise leaves them alone and returns to generator; no run has more
\* than max_iterations rounds.
C33_SelectorEndsOrRepeats ==
  [][(/\ strategy = "lats" /\ node = "selector" /\ status = "running"
      /\ steps' = steps + 1 /\ run' = run)
     => /\ iteration_counter' = iteration_counter + 1
        /\ visits'["generator"] <= max_iterations
        /\ visits'["selector"] <= max_iterations
        /\ IF Get(state, "is_solved", FALSE) \/ iteration_counter' >= max_iterations
             THEN /\ "final_answer" \in DOMAIN last_update'
                  /\ Get(state', "final_answer", None) = Last(state'.messages).content
                  /\ Get(state', "is_solved", FALSE)
                  /\ status' = "done"
             ELSE /\ "final_answer" \notin DOMAIN last_update'
                  /\ Get(state', "final_answer", None) = Get(state, "final_answer", None)
                  /\ ~Get(state', "is_solved", FALSE)
                  /\ status' = "running"
                  /\ node' = "generator"]_vars

\* C34: the request of every generator pass is determined by the question
\* and the best path alone: it is the request of a run that holds the same
\* question and the same best path and none of the messages appended in
\* earlier rounds.
C34_OnlyBestPathCarries ==
  (strategy = "lats" /\ last_node = "generator") =>
    LET before == SubSeq(state.messages, 1, Len(state.messages) - 1)
        fresh == [state EXCEPT !.messages = <<HumanMessage(original_question(before))>>]
    IN llm_input = lats_generator_request(fresh)

\* C35: AdaPlanner never enters the executor with the step index at or past
\* the plan length: the plan is non-empty after planner and after every
\* replanner pass, the executor is entered from planner with index 0, and
\* whenever the cursor is on executor the index is below the plan length.
C35_ExecutorNeverNoop ==
  (strategy = "ada_planner" /\ visits["planner"] >= 1) =>
    LET plan == Get(state, "current_plan", <<>>)
        index == Get(state, "current_step_index", 0)
    IN /\ plan # <<>>
       /\ (node = "executor" /\ last_node = "planner") => index = 0
       /\ node = "executor" => (index < Len(plan) /\ ~ada_executor_noop(state))

\* the executor is entered again after a modify decision
C35_Witness ==
  /\ strategy = "ada_planner"
  /\ node = "executor"
  /\ last_node = "replanner"
  /\ "current_plan" \in DOMAIN last_update
  /\ visits["tools"] >= 1

\* C36: whenever the selector is about to run on a non-empty candidate list
\* and score list, the index of the maximum score is an index of the
\* candidate list.
C36_BestIndexInRange ==
  (/\ strategy = "lats" /\ node = "selector" /\ status = "running"
   /\ Get(state, "candidates", <<>>) # <<>>
   /\ Get(state, "scores", <<>>) # <<>>)
    => /\ 0 <= best_idx(state.scores)
       /\ best_idx(state.scores) < Len(state.candidates)

\* the messages a step appended to the conversation
Appended == SubSeq(state'.messages, Len(state.messages) + 1, Len(state'.messages))

\* C37: the step's message buffer is empty whenever the executor is entered
\* from planner or from replanner; the executor's first visit of a step puts
\* the instruction naming the current step number and step text in front of
\* its response, and every later executor or tools pass of the step appends
\* its response or its tool results to the buffer.
C37_StepBufferGrows ==
  [][(strategy = "ada_planner" /\ status = "running" /\ steps' = steps + 1 /\ run' = run)
     => LET buffer == Get(state, "executor_messages", <<>>)
            buffer_ == Get(state', "executor_messages", <<>>)
            plan == Get(state, "current_plan", <<>>)
            index == Get(state, "current_step_index", 0)
            completed == Get(state, "completed_steps", <<>>)
        IN /\ (node' = "executor" /\ node \in {"planner", "replanner"}) => buffer_ = <<>>
           /\ (node = "executor" /\ buffer = <<>>) =>
                buffer_ =
                  << SystemMessage(ADA_EXECUTOR_SYSTEM_PROMPT(
                       IntToStr(index + 1), plan_formatted(plan), plan[index + 1],
                       IF completed = <<>> THEN "None yet" ELSE Join(completed, "\n"))),
                     HumanMessage("Execute this step: " \o plan[index + 1]) >>
                    \o Appended
           /\ (node = "executor" /\ buffer # <<>>) => buffer_ = buffer \o Appended
           /\ node = "executor" => (Len(Appended) = 1 /\ Appended[1].type = "ai")
           /\ node = "tools" =>
                /\ buffer_ = buffer \o Appended
                /\ \A i \in 1..Len(Appended) : Appended[i].type = "tool"]_vars

\* a tools pass of the second step has appended its results to the buffer
C37_Witness ==
  /\ strategy = "ada_planner"
  /\ last_node = "tools"
  /\ Get(state, "current_step_index", 0) = 1
  /\ Len(state.executor_messages) >= 4
  /\ state.executor_messages[1].type = "system"
  /\ Last(state.executor_messages).type = "tool"

\* C38: a replanner response holding DECISION: FINISHED is a finished
\* decision even when it also holds DECISION: MODIFY (final_answer is
\* written, plan and step index stay); a response holding DECISION: MODIFY
\* without NEW_PLAN:, or none of the markers, is a continue decision, which
\* leaves plan, step index, completed steps and final_answer as they are
\* and only appends the response to the messages.
C38_DecisionPrecedence ==
  [][(/\ strategy = "ada_planner" /\ node = "replanner" /\ status = "running"
      /\ steps' = steps + 1 /\ run' = run)
     => LET content == Last(state'.messages).content
            finished == Contains(content, "DECISION: FINISHED")
            modify == Contains(content, "DECISION: MODIFY")
            marked == Contains(content, "NEW_PLAN:")
            same(k) == /\ (k \in DOMAIN state') = (k \in DOMAIN state)
                       /\ k \in DOMAIN state => state'[k] = state[k]
        IN /\ Appended = <<AIMessage(content, <<>>)>>
           /\ finished =>
                /\ "final_answer" \in DOMAIN last_update'
                /\ state'.final_answer = last_update'.final_answer
                /\ same("current_plan") /\ same("current_step_index")
           /\ (~finished /\ ~(modify /\ marked)) =>
                /\ DOMAIN last_update' = {"messages"}
                /\ same("current_plan") /\ same("current_step_index")
                /\ same("completed_steps") /\ same("final_answer")]_vars

\* a response with both decisions has ended the run with its answer
C38_Witness ==
  /\ strategy = "ada_planner"
  /\ last_node = "replanner"
  /\ status = "done"
  /\ Contains(Last(state.messages).content, "DECISION: FINISHED")
  /\ Contains(Last(state.messages).content, "DECISION: MODIFY")
  /\ Truthy(state.final_answer)
  /\ state.current_step_index = 1

\* a replanner response of this run was a modify decision
ModifyDecided ==
  \E i \in 1..Len(state.messages) :
    LET content == state.messages[i].content
    IN /\ state.messages[i].type = "ai"
       /\ ~Contains(content, "DECISION: FINISHED")
       /\ Contains(content, "DECISION: MODIFY")
       /\ Contains(content, "NEW_PLAN:")

\* C39: every replanner pass of an AdaPlanner run follows one record_step
\* pass of its own; in a run without a modify decision there are at most
\* len(plan) record_step passes and len(plan) replanner passes, the run is
\* at the terminal after the replanner pass that follows the last step, and
\* the nodes executed number at most 1 + 3 * len(plan) plus two for every
\* tools pass.
C39_PassesBoundedByPlan ==
  (strategy = "ada_planner" /\ visits["planner"] >= 1) =>
    LET n == Len(Get(state, "current_plan", <<>>))
        index == Get(state, "current_step_index", 0)
    IN /\ visits["replanner"] <= visits["record_step"]
       /\ visits["record_step"] <= visits["replanner"] + 1
       /\ node = "replanner" =>
            (last_node = "record_step" /\ visits["record_step"] = visits["replanner"] + 1)
       /\ ~ModifyDecided =>
            /\ visits["record_step"] = index
            /\ visits["record_step"] <= n
            /\ visits["replanner"] <= n
            /\ (last_node = "replanner" /\ visits["replanner"] = n) => status = "done"
            /\ steps <= 1 + 3 * n + 2 * visits["tools"]

\* a run without a modify decision, whose first step needed a tools pass, is
\* at the terminal after len(plan) replanner passes
C39_Witness ==
  /\ strategy = "ada_planner"
  /\ status = "done"
  /\ ~ModifyDecided
  /\ Len(state.current_plan) = 2
  /\ visits["record_step"] = 2
  /\ visits["replanner"] = 2
  /\ visits["tools"] = 1
  /\ ~Truthy(Get(state, "final_answer", None))

====
